---------------------------- MODULE Spec2Model ----------------------------
(***************************************************************************)
(* PRL timesheet processor: the two variants of the extractor and pay      *)
(* calculator found in the repository, and the batch loops that drive      *)
(* them.                                                                   *)
(*                                                                         *)
(*   variant "appy1"       : src/appy1.py (sidebar-configured rates and    *)
(*                           policy, calculate_pay, process_folder)        *)
(*   variant "streamlined" : src/timesheet_processor_streamlined.py        *)
(*                           (module constants, bucket pay formula,        *)
(*                           module-level upload loop)                     *)
(*                                                                         *)
(* Units.  Hours are whole hours (float(hrs) of a cell such as "8").       *)
(* Rates are in pence (15.0 pounds/hour = 1500).  Multipliers are in       *)
(* hundredths (1.75 = 175).  An unrounded pay amount is therefore in       *)
(* 1/100 pence (hours * rate * multiplier); round(pay, 2) turns it into    *)
(* whole pence.  Python computes in binary floating point; the model       *)
(* computes the exact values.                                              *)
(*                                                                         *)
(* Text.  Paragraph and cell texts are strings of a finite vocabulary.     *)
(* What the code's regular expressions and string tests answer on each     *)
(* string of the vocabulary is tabulated below.  The two dash              *)
(* placeholders U+2013 and U+2014 are written "<en-dash>" and "<em-dash>". *)
(***************************************************************************)
EXTENDS Integers, Sequences, FiniteSets, TLC

VARIABLES
    variant,        \* which program runs: "appy1" or "streamlined"
    sidebar,        \* appy1: the sidebar widgets' values (appy1.py 37-106)
    custom_rates,   \* global dict name -> rate (pence)
    default_rate,   \* global default rate (pence)
    batch,          \* the documents: folder listing (appy1) / uploaded_files
    visited,        \* indices of batch the loop has already taken
    results,        \* process_folder's results / the upload loop's rows
    reported,       \* appy1: st.error messages, <<filename, reason>>
    last,           \* locals of the most recent extract_timesheet_data call
    pc              \* "running", "done", or "crashed" (uncaught exception)

vars == <<variant, sidebar, custom_rates, default_rate, batch, visited,
          results, reported, last, pc>>

-----------------------------------------------------------------------------
(* Bounds of the model *)

\* longest shift table of a pay-family document
MaxShiftRows == 4
\* longest table of an extraction-family document
MaxTableRows == 2
\* most paragraphs of a name-family document
MaxParas == 2
\* most documents in a batch-family batch
MaxDocs == 3

-----------------------------------------------------------------------------
(* Generic helpers *)

Max(a, b) == IF a >= b THEN a ELSE b

RECURSIVE SumSeq(_)
SumSeq(s) == IF s = <<>> THEN 0 ELSE Head(s) + SumSeq(Tail(s))

\* sequences over S of length 0..n
SeqsUpTo(S, n) == UNION { [1..k -> S] : k \in 0..n }

\* Python's round(x, 2) on an amount held in 1/100 pence: the nearest whole
\* pence, ties to the even neighbour (exact decimal value; x may be negative).
Round2(x) ==
    LET q == x \div 100
        r == x % 100
    IN  IF r < 50 THEN q
        ELSE IF r > 50 THEN q + 1
        ELSE IF q % 2 = 0 THEN q ELSE q + 1

-----------------------------------------------------------------------------
(* Text vocabulary and what the code's string tests answer on it *)

\* re.fullmatch(r"[A-Z\s]{5,}", text)
UpperTexts == {"JOHN SMITH", "AARON HALL", "TIMESHEET", "PRL JOHN SMITH"}
FullmatchUpper(t) == t \in UpperTexts

\* "PRL" in text
ContainsPRL(t) == t = "PRL JOHN SMITH"

\* len(text.split())
WordCount(t) ==
    CASE t \in {"JOHN SMITH", "AARON HALL"} -> 2
      [] t = "PRL JOHN SMITH" -> 3
      [] t = "TIMESHEET" -> 1
      [] t = "Print Name: Bob Jones" -> 4
      [] t = "print name - Bob Jones" -> 5
      [] t = "Client: Acme" -> 2
      [] t = "Site Address: Dock 4" -> 4
      [] t = "" -> 0
      [] OTHER -> 1

\* str.title()
Title(t) ==
    CASE t = "JOHN SMITH" -> "John Smith"
      [] t = "AARON HALL" -> "Aaron Hall"
      [] t = "TIMESHEET" -> "Timesheet"
      [] t = "PRL JOHN SMITH" -> "Prl John Smith"
      [] OTHER -> t

\* "print name" in text.lower()                         (appy1.py 172)
ContainsPrintNameAnyCase(t) ==
    t \in {"Print Name: Bob Jones", "print name - Bob Jones"}

\* "Print Name" in para.text                            (streamlined 31)
ContainsPrintName(t) == t = "Print Name: Bob Jones"

\* group(1).strip() of the Print Name regex; both variants search with
\* re.IGNORECASE and capture the same text on this vocabulary
PrintNameValue(t) ==
    CASE t = "Print Name: Bob Jones" -> "Bob Jones"
      [] t = "print name - Bob Jones" -> "Bob Jones"
      [] OTHER -> ""

\* "Client" in text, and group(1).strip() of the Client regex
ContainsClient(t) == t = "Client: Acme"
ClientValue(t) == IF t = "Client: Acme" THEN "Acme" ELSE ""

\* "Site Address" in text, and group(1).strip() of the Site Address regex
ContainsSite(t) == t = "Site Address: Dock 4"
SiteValue(t) == IF t = "Site Address: Dock 4" THEN "Dock 4" ELSE ""

\* float(hrs): the hour texts float() accepts, and their values
FloatTexts == {"6", "8", "10", "30", "-3"}
FloatOf(t) ==
    CASE t = "6" -> 6
      [] t = "8" -> 8
      [] t = "10" -> 10
      [] t = "30" -> 30
      [] t = "-3" -> 0 - 3
      [] OTHER -> 0

\* date texts: day, month, year of a text that re.match(r"\d{2}\.\d{2}\.\d{4}")
\* accepts; every other text of the vocabulary does not match
DateTexts == {"01.01.2024", "02.01.2024", "03.01.2024", "06.01.2024",
              "07.01.2024", "31.02.2024"}
MatchesDatePattern(t) == t \in DateTexts
DMY(t) ==
    CASE t = "01.01.2024" -> [d |-> 1, m |-> 1, y |-> 2024]
      [] t = "02.01.2024" -> [d |-> 2, m |-> 1, y |-> 2024]
      [] t = "03.01.2024" -> [d |-> 3, m |-> 1, y |-> 2024]
      [] t = "06.01.2024" -> [d |-> 6, m |-> 1, y |-> 2024]
      [] t = "07.01.2024" -> [d |-> 7, m |-> 1, y |-> 2024]
      [] t = "31.02.2024" -> [d |-> 31, m |-> 2, y |-> 2024]
      [] OTHER -> [d |-> 0, m |-> 0, y |-> 0]

IsLeap(y) == (y % 4 = 0 /\ y % 100 # 0) \/ y % 400 = 0
DaysInMonth(m, y) ==
    CASE m \in {1, 3, 5, 7, 8, 10, 12} -> 31
      [] m \in {4, 6, 9, 11} -> 30
      [] m = 2 -> IF IsLeap(y) THEN 29 ELSE 28
      [] OTHER -> 0

\* datetime.strptime(text, "%d.%m.%Y") succeeds (no ValueError)
StrptimeOk(t) ==
    /\ MatchesDatePattern(t)
    /\ DMY(t).m \in 1..12
    /\ DMY(t).d \in 1..DaysInMonth(DMY(t).m, DMY(t).y)

\* the datetime strptime returns, as its ordering key
Strptime(t) == DMY(t).y * 10000 + DMY(t).m * 100 + DMY(t).d

\* datetime.strftime("%d.%m.%Y") of such a datetime
Strftime(k) == CHOOSE t \in DateTexts : StrptimeOk(t) /\ Strptime(t) = k

\* Path(doc_path).stem and filename.lower().endswith(".docx")
Stem(f) ==
    CASE f = "Aaron Hall.docx" -> "Aaron Hall"
      [] f = "ts1.docx" -> "ts1"
      [] f = "ts2.docx" -> "ts2"
      [] f = "TS3.DOCX" -> "TS3"
      [] f = "notes.txt" -> "notes"
      [] OTHER -> f
EndsWithDocx(f) == f \in {"Aaron Hall.docx", "ts1.docx", "ts2.docx", "TS3.DOCX"}

-----------------------------------------------------------------------------
(* Pay calculation *)

\* the overtime policy of the streamlined module: OT_RULES (lines 18-22) and
\* the literal 50 of line 74
StreamlinedPolicy ==
    [threshold |-> 50, Saturday |-> 150, Sunday |-> 175, Over |-> 150]

\* the overtime policy of appy1: the sidebar's four policy widgets
SidebarPolicy ==
    [threshold |-> sidebar.overtime_threshold,
     Saturday  |-> sidebar.saturday_multiplier,
     Sunday    |-> sidebar.sunday_multiplier,
     Over      |-> sidebar.overtime_multiplier]

\* custom_rates.get(name, default_rate)
RateFor(name) ==
    IF name \in DOMAIN custom_rates THEN custom_rates[name] ELSE default_rate

\* sum(d['hours'] for d in daily_data)
TotalHours(daily_data) ==
    SumSeq([i \in 1..Len(daily_data) |-> daily_data[i].hours])

\* sum(d['hours'] for d in daily_data if d['weekday'] == wd)
HoursOn(daily_data, wd) ==
    SumSeq([i \in 1..Len(daily_data) |->
             IF daily_data[i].weekday = wd THEN daily_data[i].hours ELSE 0])

\* the multiplier of one day if Sunday were paid like Saturday (a copy-paste
\* slip of lines 131-134)
DayMultiplierSundayAsSaturday(weekday, pol) ==
    IF weekday = "Saturday" THEN pol.Saturday
    ELSE IF weekday = "Sunday" THEN pol.Saturday
    ELSE 100

\* appy1 calculate_pay, lines 130-134: the multiplier of one day
DayMultiplier(weekday, pol) ==
    IF weekday = "Saturday" THEN pol.Saturday
    ELSE IF weekday = "Sunday" THEN pol.Sunday
    ELSE 100

\* the unrounded pay if the excess were paid at the full overtime multiplier
\* on top of the first pass (a plausible slip of line 143)
DayFirstPayFullOvertime(daily_data, rate, pol) ==
    LET total_hours == TotalHours(daily_data)
        pay == SumSeq([i \in 1..Len(daily_data) |->
                 daily_data[i].hours * rate
                   * DayMultiplier(daily_data[i].weekday, pol)])
    IN  IF total_hours > pol.threshold
        THEN pay + (total_hours - pol.threshold) * rate * pol.Over
        ELSE pay

\* appy1 calculate_pay, lines 123-143: the unrounded pay, day multipliers
\* first, then the excess over the threshold at (overtime_multiplier - 1)
DayFirstPay(daily_data, rate, pol) ==
    LET total_hours == TotalHours(daily_data)
        pay == SumSeq([i \in 1..Len(daily_data) |->
                 daily_data[i].hours * rate
                   * DayMultiplier(daily_data[i].weekday, pol)])
    IN  IF total_hours > pol.threshold
        THEN pay + (total_hours - pol.threshold) * rate * (pol.Over - 100)
        ELSE pay

\* appy1 calculate_pay: (round(total_hours, 2), round(pay, 2), rate); the
\* unrounded pay is kept beside them
calculate_pay(name, daily_data) ==
    LET rate == RateFor(name)
        pay  == DayFirstPay(daily_data, rate, SidebarPolicy)
    IN  [total_hours |-> TotalHours(daily_data),
         pay_amount  |-> Round2(pay),
         used_rate   |-> rate,
         pay         |-> pay]

\* the bucket computation with regular hours clamped at zero
BucketPayClamped(daily_data, rate, pol) ==
    LET total_hours   == TotalHours(daily_data)
        saturday      == HoursOn(daily_data, "Saturday")
        sunday        == HoursOn(daily_data, "Sunday")
        weekend_hours == saturday + sunday
        over_50       == Max(total_hours - pol.threshold, 0)
        regular_hours == Max(total_hours - weekend_hours - over_50, 0)
        regular_pay   == regular_hours * rate * 100
        saturday_pay  == saturday * rate * pol.Saturday
        sunday_pay    == sunday * rate * pol.Sunday
        over50_pay    == over_50 * rate * pol.Over
    IN  [total_hours   |-> total_hours,
         weekend_hours |-> weekend_hours,
         saturday_hours |-> saturday,
         sunday_hours  |-> sunday,
         over_50       |-> over_50,
         regular_hours |-> regular_hours,
         regular_pay   |-> regular_pay,
         total_pay     |-> regular_pay + saturday_pay + sunday_pay + over50_pay]

\* streamlined extract_timesheet_data, lines 72-82: the hour buckets and the
\* unrounded pay (regular_hours * rate is scaled by 100, i.e. multiplier 1.0)
BucketPay(daily_data, rate, pol) ==
    LET total_hours   == TotalHours(daily_data)
        saturday      == HoursOn(daily_data, "Saturday")
        sunday        == HoursOn(daily_data, "Sunday")
        weekend_hours == saturday + sunday
        over_50       == Max(total_hours - pol.threshold, 0)
        regular_hours == total_hours - weekend_hours - over_50
        regular_pay   == regular_hours * rate * 100
        saturday_pay  == saturday * rate * pol.Saturday
        sunday_pay    == sunday * rate * pol.Sunday
        over50_pay    == over_50 * rate * pol.Over
    IN  [total_hours   |-> total_hours,
         weekend_hours |-> weekend_hours,
         saturday_hours |-> saturday,
         sunday_hours  |-> sunday,
         over_50       |-> over_50,
         regular_hours |-> regular_hours,
         regular_pay   |-> regular_pay,
         total_pay     |-> regular_pay + saturday_pay + sunday_pay + over50_pay]

-----------------------------------------------------------------------------
(* Extraction, appy1 variant (appy1.py 147-242) *)

\* one paragraph of the loop of lines 161-180, on acc = [name, client, site]
ParaStepA(acc, text) ==
    LET client1 == IF ContainsClient(text) /\ acc.client = ""
                   THEN ClientValue(text) ELSE acc.client
        name1   == IF /\ acc.name = ""
                      /\ FullmatchUpper(text) /\ ~ContainsPRL(text)
                      /\ WordCount(text) >= 2
                   THEN Title(text) ELSE acc.name
        name2   == IF name1 = "" /\ ContainsPrintNameAnyCase(text)
                   THEN PrintNameValue(text) ELSE name1
        site1   == IF ContainsSite(text) /\ acc.site = ""
                   THEN SiteValue(text) ELSE acc.site
    IN  [name |-> name2, client |-> client1, site |-> site1]

RECURSIVE ParasA(_, _)
ParasA(acc, paras) ==
    IF paras = <<>> THEN acc
    ELSE ParasA(ParaStepA(acc, Head(paras)), Tail(paras))

\* one cell of the loop of lines 186-197 (cells of the vocabulary hold one line)
CellStepA(acc, ct) ==
    LET site1 == IF acc.site = "" /\ ContainsSite(ct)
                 THEN SiteValue(ct) ELSE acc.site
        name1 == IF /\ acc.name = ""
                    /\ FullmatchUpper(ct) /\ ~ContainsPRL(ct)
                    /\ WordCount(ct) >= 2
                 THEN Title(ct) ELSE acc.name
    IN  [name |-> name1, client |-> acc.client, site |-> site1]

RECURSIVE CellsA(_, _)
CellsA(acc, cells) ==
    IF cells = <<>> THEN acc
    ELSE CellsA(CellStepA(acc, Head(cells)), Tail(cells))

RECURSIVE TablesA(_, _)
TablesA(acc, rows) ==
    IF rows = <<>> THEN acc
    ELSE TablesA(CellsA(acc, Head(rows)), Tail(rows))

\* lines 200-208: the shift records one row appends to daily_data
ShiftA(cells) ==
    IF Len(cells) >= 5
    THEN LET hrs      == cells[5]
             day_text == cells[2]
         IN  IF /\ hrs # ""
                /\ hrs \notin {"-", "<en-dash>", "<em-dash>"}
                /\ day_text # ""
                /\ hrs \in FloatTexts
             THEN << [weekday |-> day_text, hours |-> FloatOf(hrs)] >>
             ELSE <<>>
    ELSE <<>>

RECURSIVE DailyDataA(_)
DailyDataA(rows) ==
    IF rows = <<>> THEN <<>>
    ELSE ShiftA(Head(rows)) \o DailyDataA(Tail(rows))

\* lines 213-221: the dates of the rows whose first cell parses
RECURSIVE DateListA(_)
DateListA(rows) ==
    IF rows = <<>> THEN {}
    ELSE (IF StrptimeOk(Head(rows)[1]) THEN {Strptime(Head(rows)[1])} ELSE {})
         \cup DateListA(Tail(rows))

SetMin(S) == CHOOSE x \in S : \A y \in S : x <= y
SetMax(S) == CHOOSE x \in S : \A y \in S : x >= y

\* lines 222-225
DateRangeA(rows) ==
    LET date_list == DateListA(rows)
    IN  IF date_list = {} THEN <<>>
        ELSE <<Strftime(SetMin(date_list)), "<en-dash>",
               Strftime(SetMax(date_list))>>

\* the locals of extract_timesheet_data(doc_path) when it returns
ExtractLocalsA(doc) ==
    LET acc0 == [name |-> "", client |-> "", site |-> ""]
        acc  == TablesA(ParasA(acc0, doc.paras), doc.rows)
        daily_data == DailyDataA(doc.rows)
        paid == calculate_pay(acc.name, daily_data)
    IN  [called      |-> TRUE,
         file        |-> doc.file,
         name        |-> acc.name,
         client      |-> acc.client,
         site        |-> acc.site,
         daily_data  |-> daily_data,
         rate        |-> paid.used_rate,
         total_hours |-> paid.total_hours,
         pay         |-> paid.pay,
         pay_amount  |-> paid.pay_amount,
         date_range  |-> DateRangeA(doc.rows)]

\* the row extract_timesheet_data returns (lines 227-242; "Extracted On", the
\* wall-clock time of the call, is left out)
ExtractA(doc) ==
    LET l    == ExtractLocalsA(doc)
        name == IF l.name = "" THEN Stem(doc.file) ELSE l.name
    IN  [Name         |-> name,
         Client       |-> l.client,
         Site         |-> l.site,
         TotalHours   |-> l.total_hours,
         Rate         |-> l.rate,
         Pay          |-> l.pay_amount,
         PrintedName  |-> name,
         DateRange    |-> l.date_range,
         FileName     |-> doc.file]

-----------------------------------------------------------------------------
(* Extraction, streamlined variant (timesheet_processor_streamlined.py 24-97) *)

\* lines 30-34: every "Print Name" paragraph overwrites printed_name
RECURSIVE PrintedNameS(_, _)
PrintedNameS(printed_name, paras) ==
    IF paras = <<>> THEN printed_name
    ELSE PrintedNameS(IF ContainsPrintName(Head(paras))
                      THEN PrintNameValue(Head(paras)) ELSE printed_name,
                      Tail(paras))

\* one cell of the loop of lines 39-50, on acc = [name, client, site]
CellStepS(acc, txt) ==
    LET client1 == IF ContainsClient(txt) /\ acc.client = ""
                   THEN ClientValue(txt) ELSE acc.client
        site1   == IF ContainsSite(txt) /\ acc.site = ""
                   THEN SiteValue(txt) ELSE acc.site
        name1   == IF acc.name = "" /\ FullmatchUpper(txt) /\ ~ContainsPRL(txt)
                   THEN Title(txt) ELSE acc.name
    IN  [name |-> name1, client |-> client1, site |-> site1]

RECURSIVE CellsS(_, _)
CellsS(acc, cells) ==
    IF cells = <<>> THEN acc
    ELSE CellsS(CellStepS(acc, Head(cells)), Tail(cells))

RECURSIVE TablesS(_, _)
TablesS(acc, rows) ==
    IF rows = <<>> THEN acc
    ELSE TablesS(CellsS(acc, Head(rows)), Tail(rows))

\* the row's date if it entered date_list only together with an accepted
\* shift record (the append of line 59 moved below the hours test of line 60)
RowDateSAfterHours(cells) ==
    IF /\ Len(cells) >= 5 /\ MatchesDatePattern(cells[1]) /\ StrptimeOk(cells[1])
       /\ cells[5] # "" /\ cells[5] \notin {"-", "<en-dash>", ""}
       /\ cells[5] \in FloatTexts
    THEN {Strptime(cells[1])} ELSE {}

\* lines 52-59: the row's date enters date_list (appended before the hours
\* cell is looked at)
RowDateS(cells) ==
    IF Len(cells) >= 5 /\ MatchesDatePattern(cells[1]) /\ StrptimeOk(cells[1])
    THEN {Strptime(cells[1])} ELSE {}

\* lines 52-67: the shift records one row appends to daily_data; a ValueError
\* of strptime or float is swallowed by the bare except (continue)
ShiftS(cells) ==
    IF Len(cells) >= 5 /\ MatchesDatePattern(cells[1]) /\ StrptimeOk(cells[1])
    THEN LET hrs == cells[5]
         IN  IF hrs # "" /\ hrs \notin {"-", "<en-dash>", ""} /\ hrs \in FloatTexts
             THEN << [date    |-> Strptime(cells[1]),
                      weekday |-> cells[2],
                      hours   |-> FloatOf(hrs)] >>
             ELSE <<>>
    ELSE <<>>

RECURSIVE DailyDataS(_)
DailyDataS(rows) ==
    IF rows = <<>> THEN <<>>
    ELSE ShiftS(Head(rows)) \o DailyDataS(Tail(rows))

RECURSIVE DateListS(_)
DateListS(rows) ==
    IF rows = <<>> THEN {}
    ELSE RowDateS(Head(rows)) \cup DateListS(Tail(rows))

\* line 84
DateRangeS(rows) ==
    LET date_list == DateListS(rows)
    IN  IF date_list = {} THEN <<>>
        ELSE <<Strftime(SetMin(date_list)), " <en-dash> ",
               Strftime(SetMax(date_list))>>

\* the locals of extract_timesheet_data(doc_file) when it returns
ExtractLocalsS(doc) ==
    LET acc0 == [name |-> "", client |-> "", site |-> ""]
        acc  == TablesS(acc0, doc.rows)
        printed_name == PrintedNameS("", doc.paras)
        name == IF acc.name = "" /\ printed_name # "" THEN printed_name
                ELSE acc.name
        daily_data == DailyDataS(doc.rows)
        rate == RateFor(name)
        b    == BucketPay(daily_data, rate, StreamlinedPolicy)
    IN  [called        |-> TRUE,
         file          |-> doc.file,
         name          |-> name,
         printed_name  |-> printed_name,
         client        |-> acc.client,
         site          |-> acc.site,
         daily_data    |-> daily_data,
         rate          |-> rate,
         total_hours   |-> b.total_hours,
         weekend_hours |-> b.weekend_hours,
         saturday_hours |-> b.saturday_hours,
         sunday_hours  |-> b.sunday_hours,
         over_50       |-> b.over_50,
         regular_hours |-> b.regular_hours,
         regular_pay   |-> b.regular_pay,
         pay           |-> b.total_pay,
         pay_amount    |-> Round2(b.total_pay),
         date_range    |-> DateRangeS(doc.rows)]

\* the row extract_timesheet_data returns (lines 86-97)
ExtractS(doc) ==
    LET l == ExtractLocalsS(doc)
    IN  [Name       |-> l.name,
         Client     |-> l.client,
         Site       |-> l.site,
         DateRange  |-> l.date_range,
         TotalHours |-> l.total_hours,
         Rate       |-> l.rate,
         Over50     |-> l.over_50,
         SaturdayOT |-> l.saturday_hours,
         SundayOT   |-> l.sunday_hours,
         Pay        |-> l.pay_amount]

-----------------------------------------------------------------------------
(* Configuration *)

\* streamlined: custom_rates (lines 10-14) and default_rate (line 15)
StreamlinedRates ==
    [n \in {"Aaron Hall", "Finley Mc", "Andrew Burke"} |->
        CASE n = "Aaron Hall" -> 1500
          [] n = "Finley Mc" -> 1800
          [] n = "Andrew Burke" -> 1650]
StreamlinedDefaultRate == 1500

\* appy1: prepop_names (line 83)
PrepopNames == {"Aaron Hall", "Finley Mc", "Andrew Burke"}

\* appy1 lines 81-106: custom_rates as the script builds it from the widgets;
\* a widget left at zero stores nothing, and the added name is written last
BuildCustomRates(sb) ==
    LET pre == {n \in PrepopNames : sb.prepop[n] > 0}
        add == IF sb.new_name # "" /\ sb.new_rate > 0 THEN {sb.new_name} ELSE {}
    IN  [n \in pre \cup add |->
            IF n \in add THEN sb.new_rate ELSE sb.prepop[n]]

\* the sidebar as the script first renders it (the widgets' value= arguments),
\* with the overtime multiplier, the threshold and the rate widgets varied
Sidebar(thr, over, aaron, new_name, new_rate) ==
    [default_rate        |-> 1500,
     overtime_threshold  |-> thr,
     saturday_multiplier |-> 150,
     sunday_multiplier   |-> 175,
     overtime_multiplier |-> over,
     prepop   |-> [n \in PrepopNames |-> IF n = "Aaron Hall" THEN aaron ELSE 0],
     new_name |-> new_name,
     new_rate |-> new_rate]

PolicySidebars ==
    { Sidebar(thr, over, 0, "", 0) : thr \in {50, 20}, over \in {125, 150} }

RateSidebars ==
    { Sidebar(50, 125, aaron, "", 0) : aaron \in {0, 1800} }
    \cup { Sidebar(50, 125, aaron, "Bob Jones", nr) :
             aaron \in {0, 1800}, nr \in {0, 2000} }

\* the streamlined module has no sidebar
NoSidebar == [none |-> TRUE]

-----------------------------------------------------------------------------
(* Documents of the model *)

Doc(file, load_error, paras, rows) ==
    [file |-> file, load_error |-> load_error, paras |-> paras, rows |-> rows]

ShiftRow(date_text, day, hrs) == <<date_text, day, "", "", hrs>>

\* pay family: one loadable document, a table of well-formed shift rows
PayRows ==
    { ShiftRow("01.01.2024", "Monday", "8"),
      ShiftRow("02.01.2024", "Tuesday", "8"),
      ShiftRow("06.01.2024", "Saturday", "10"),
      ShiftRow("07.01.2024", "Sunday", "6"),
      ShiftRow("06.01.2024", "Saturday", "30"),
      ShiftRow("07.01.2024", "Sunday", "30"),
      ShiftRow("03.01.2024", "Wednesday", "30") }
PayDocs ==
    { Doc("ts1.docx", "", <<>>, rows) : rows \in SeqsUpTo(PayRows, MaxShiftRows) }

\* extraction family: one loadable document, a table of rows of every shape
TableRows ==
    { ShiftRow("01.01.2024", "Monday", "8"),
      ShiftRow("31.02.2024", "Tuesday", "8"),
      ShiftRow("02.01.2024", "Tuesday", "-3"),
      ShiftRow("03.01.2024", "Wednesday", "-"),
      ShiftRow("03.01.2024", "Wednesday", "<em-dash>"),
      ShiftRow("03.01.2024", "Wednesday", "abc"),
      ShiftRow("03.01.2024", "Wednesday", ""),
      ShiftRow("02.01.2024", "", "8"),
      ShiftRow("", "Monday", "8"),
      <<"06.01.2024", "Saturday", "10">> }
TableDocs ==
    { Doc("ts1.docx", "", <<>>, rows) : rows \in SeqsUpTo(TableRows, MaxTableRows) }

\* name family: paragraphs and cells that carry names, under two file names
NameParas ==
    { "JOHN SMITH", "TIMESHEET", "PRL JOHN SMITH", "Print Name: Bob Jones",
      "print name - Bob Jones", "Client: Acme", "Site Address: Dock 4" }
NameRows ==
    { <<"JOHN SMITH">>, <<"TIMESHEET", "Client: Acme">>,
      ShiftRow("01.01.2024", "Monday", "8") }
NameDocs ==
    { Doc(f, "", paras, rows) :
        f \in {"Aaron Hall.docx", "ts1.docx"},
        paras \in SeqsUpTo(NameParas, MaxParas),
        rows \in SeqsUpTo(NameRows, MaxTableRows) }

\* batch family: up to MaxDocs distinct files, some of which do not load
BatchDocs ==
    { Doc("ts1.docx", "", <<"JOHN SMITH">>,
          << <<"JOHN SMITH">>, ShiftRow("01.01.2024", "Monday", "8") >>),
      Doc("ts2.docx", "Package not found", <<>>, <<>>),
      Doc("TS3.DOCX", "", <<"Print Name: Bob Jones">>,
          << ShiftRow("06.01.2024", "Saturday", "10") >>),
      Doc("notes.txt", "File is not a zip file", <<>>, <<>>) }

Distinct(b) == \A i, j \in 1..Len(b) : i # j => b[i].file # b[j].file

\* appy1 lists a folder (any files); the streamlined uploader (line 101)
\* admits .docx files only
Batches(v) ==
    { b \in SeqsUpTo(BatchDocs, MaxDocs) :
        /\ Len(b) >= 1
        /\ Distinct(b)
        /\ v = "streamlined" => \A i \in 1..Len(b) : EndsWithDocx(b[i].file) }

-----------------------------------------------------------------------------
(* State machine *)

Init ==
    /\ variant \in {"appy1", "streamlined"}
    /\ \/ /\ batch \in { <<d>> : d \in PayDocs }
          /\ sidebar \in IF variant = "appy1" THEN PolicySidebars ELSE {NoSidebar}
       \/ /\ batch \in { <<d>> : d \in TableDocs }
          /\ sidebar \in IF variant = "appy1" THEN {Sidebar(50, 125, 0, "", 0)}
                                             ELSE {NoSidebar}
       \/ /\ batch \in { <<d>> : d \in NameDocs }
          /\ sidebar \in IF variant = "appy1" THEN RateSidebars ELSE {NoSidebar}
       \/ /\ batch \in Batches(variant)
          /\ sidebar \in IF variant = "appy1" THEN {Sidebar(50, 125, 0, "", 0)}
                                             ELSE {NoSidebar}
    /\ custom_rates = IF variant = "appy1" THEN BuildCustomRates(sidebar)
                                           ELSE StreamlinedRates
    /\ default_rate = IF variant = "appy1" THEN sidebar.default_rate
                                           ELSE StreamlinedDefaultRate
    /\ visited = {}
    /\ results = <<>>
    /\ reported = <<>>
    /\ last = [called |-> FALSE]
    /\ pc = "running"

Unvisited == (1..Len(batch)) \ visited

\* process_folder, line 247: a file whose name does not end in .docx is passed
\* over.  os.listdir yields the files in no particular order.
SkipFile(i) ==
    /\ variant = "appy1" /\ pc = "running" /\ i \in Unvisited
    /\ ~EndsWithDocx(batch[i].file)
    /\ visited' = visited \cup {i}
    /\ UNCHANGED <<variant, sidebar, custom_rates, default_rate, batch,
                   results, reported, last, pc>>

\* process_folder, lines 249-250: the document is extracted and its row kept
ProcessFile(i) ==
    /\ variant = "appy1" /\ pc = "running" /\ i \in Unvisited
    /\ EndsWithDocx(batch[i].file)
    /\ batch[i].load_error = ""
    /\ visited' = visited \cup {i}
    /\ results' = Append(results, ExtractA(batch[i]))
    /\ last' = ExtractLocalsA(batch[i])
    /\ UNCHANGED <<variant, sidebar, custom_rates, default_rate, batch,
                   reported, pc>>

\* process_folder, lines 251-252: docx.Document raises, st.error reports the
\* file with the exception's text, and the loop goes on
ReportFailure(i) ==
    /\ variant = "appy1" /\ pc = "running" /\ i \in Unvisited
    /\ EndsWithDocx(batch[i].file)
    /\ batch[i].load_error # ""
    /\ visited' = visited \cup {i}
    /\ reported' = Append(reported, <<batch[i].file, batch[i].load_error>>)
    /\ UNCHANGED <<variant, sidebar, custom_rates, default_rate, batch,
                   results, last, pc>>

\* process_folder, line 253: every file was listed; results is returned
ReturnResults ==
    /\ variant = "appy1" /\ pc = "running" /\ Unvisited = {}
    /\ pc' = "done"
    /\ UNCHANGED <<variant, sidebar, custom_rates, default_rate, batch,
                   visited, results, reported, last>>

\* streamlined, lines 105-106: the next uploaded file, in upload order
UploadLoopStep ==
    /\ variant = "streamlined" /\ pc = "running" /\ Unvisited # {}
    /\ LET i == SetMin(Unvisited)
       IN  /\ batch[i].load_error = ""
           /\ visited' = visited \cup {i}
           /\ results' = Append(results, ExtractS(batch[i]))
           /\ last' = ExtractLocalsS(batch[i])
    /\ UNCHANGED <<variant, sidebar, custom_rates, default_rate, batch,
                   reported, pc>>

\* streamlined, line 106: docx.Document raises inside the loop; nothing
\* catches it, the script run ends and the rows gathered so far are dropped
UploadLoopCrash ==
    /\ variant = "streamlined" /\ pc = "running" /\ Unvisited # {}
    /\ batch[SetMin(Unvisited)].load_error # ""
    /\ pc' = "crashed"
    /\ results' = <<>>
    /\ UNCHANGED <<variant, sidebar, custom_rates, default_rate, batch,
                   visited, reported, last>>

\* streamlined, lines 108-109: the loop is over, the rows become the table
ShowRows ==
    /\ variant = "streamlined" /\ pc = "running" /\ Unvisited = {}
    /\ pc' = "done"
    /\ UNCHANGED <<variant, sidebar, custom_rates, default_rate, batch,
                   visited, results, reported, last>>

Next ==
    \/ \E i \in 1..Len(batch) : SkipFile(i)
    \/ \E i \in 1..Len(batch) : ProcessFile(i)
    \/ \E i \in 1..Len(batch) : ReportFailure(i)
    \/ ReturnResults
    \/ UploadLoopStep
    \/ UploadLoopCrash
    \/ ShowRows

Spec == Init /\ [][Next]_vars

\* process_folder's for loop and the upload loop run to their end
FairSpec == Spec /\ WF_vars(Next)

-----------------------------------------------------------------------------
(* Vocabulary of the properties *)

\* the overtime policy the running variant computes with
PolicyInForce ==
    IF variant = "appy1" THEN SidebarPolicy ELSE StreamlinedPolicy

\* the document of the batch with this file name
DocOf(f) == CHOOSE d \in {batch[i] : i \in 1..Len(batch)} : d.file = f

\* the row the most recent extract_timesheet_data call returned
Extracted == last.called /\ results # <<>>
LastRow == results[Len(results)]

NonNegative(daily_data) ==
    \A i \in 1..Len(daily_data) : daily_data[i].hours >= 0

\* the (weekday, hours) pairs of a shift list
Shifts(daily_data) ==
    [i \in 1..Len(daily_data) |-> <<daily_data[i].weekday, daily_data[i].hours>>]

-----------------------------------------------------------------------------
(* C1 *)

\* C1: for every shift list with non-negative hours the hour buckets of the
\* (streamlined) pay computation add up to the total: regular + Saturday +
\* Sunday + over-threshold = total, where Saturday/Sunday hours are the sums
\* of the hours on shifts of that weekday and over-threshold hours are
\* max(0, total - threshold).
C1_BucketsSumToTotal ==
    (variant = "streamlined" /\ last.called /\ NonNegative(last.daily_data)) =>
        /\ last.regular_hours + last.saturday_hours + last.sunday_hours
             + last.over_50 = last.total_hours
        /\ last.saturday_hours = HoursOn(last.daily_data, "Saturday")
        /\ last.sunday_hours = HoursOn(last.daily_data, "Sunday")
        /\ last.over_50 = Max(0, last.total_hours - StreamlinedPolicy.threshold)
        /\ last.total_hours = TotalHours(last.daily_data)

\* a document with Saturday and Sunday hours and a total above the threshold
\* has been costed
C1_Witness ==
    /\ variant = "streamlined" /\ last.called /\ NonNegative(last.daily_data)
    /\ last.saturday_hours > 0 /\ last.sunday_hours > 0 /\ last.over_50 > 0

-----------------------------------------------------------------------------
(* C2 *)

\* C2: regular hours are clamped at zero: for every shift list with
\* non-negative hours the regular-hours bucket that enters the pay is >= 0
\* and so is the regular pay.
C2_RegularHoursClamped ==
    (variant = "streamlined" /\ last.called /\ NonNegative(last.daily_data)) =>
        /\ last.regular_hours >= 0
        /\ last.regular_pay >= 0

-----------------------------------------------------------------------------
(* C3 *)

\* a table row whose hours cell parses to a negative number
NegativeHoursRow(cells) ==
    Len(cells) >= 5 /\ cells[5] \in FloatTexts /\ FloatOf(cells[5]) < 0

\* C3: a shift row whose hours text parses to a negative number is rejected:
\* it never enters the shift list, and extraction of a document that holds
\* such a row does not return a row.
C3_NegativeHoursRejected ==
    last.called =>
        /\ NonNegative(last.daily_data)
        /\ \A k \in 1..Len(DocOf(last.file).rows) :
             ~NegativeHoursRow(DocOf(last.file).rows[k])

-----------------------------------------------------------------------------
(* C4 *)

\* the number of rows the finished batch holds for document i
RowCount(i) ==
    IF variant = "appy1"
    THEN Cardinality({k \in 1..Len(results) : results[k].FileName = batch[i].file})
    ELSE IF i <= Len(results) THEN 1 ELSE 0

Documents == {i \in 1..Len(batch) : EndsWithDocx(batch[i].file)}
Failing == {i \in Documents : batch[i].load_error # ""}

\* C4: the batch continues past per-document failures: it is never aborted,
\* and when it has finished every document that loads has exactly one row,
\* no failed document has a row, and every failed document is reported with
\* its reason.
C4_BatchContinuesPastFailures ==
    /\ pc # "crashed"
    /\ pc = "done" =>
         /\ \A i \in Documents \ Failing : RowCount(i) = 1
         /\ \A i \in Failing :
              /\ RowCount(i) = 0
              /\ \E k \in 1..Len(reported) :
                   reported[k] = <<batch[i].file, batch[i].load_error>>

-----------------------------------------------------------------------------
(* C5 *)

\* the lines of a document: its paragraphs and its table cells
Lines(d) ==
    {d.paras[i] : i \in 1..Len(d.paras)}
    \cup UNION {{d.rows[k][c] : c \in 1..Len(d.rows[k])} : k \in 1..Len(d.rows)}

\* a qualifying uppercase-name line: all uppercase letters and spaces, length
\* >= 5, at least two words, no "PRL"
Qualifying(t) == FullmatchUpper(t) /\ WordCount(t) >= 2 /\ ~ContainsPRL(t)

\* C5: when a document holds a qualifying uppercase-name line and a "Print
\* Name" line with a different value, in either order, the resolved Name is
\* the title-cased uppercase-name line.
C5_UppercaseNameWins ==
    Extracted =>
        LET d == DocOf(last.file)
            upper == {t \in Lines(d) : Qualifying(t)}
            print == {t \in Lines(d) : ContainsPrintNameAnyCase(t)}
        IN  (/\ upper # {}
             /\ \E u \in upper, q \in print : PrintNameValue(q) # Title(u))
            => LastRow.Name \in {Title(u) : u \in upper}

-----------------------------------------------------------------------------
(* C6 *)

\* C6: the Name of every emitted row is non-empty (a document without a name
\* line gets a name derived from its file name).
C6_NameNeverEmpty ==
    \A k \in 1..Len(results) : results[k].Name # ""

-----------------------------------------------------------------------------
(* C7 *)

\* C7: the rate of a row is the rate the rate table stores for the row's
\* name when the name is present with a non-zero rate, and default_rate
\* otherwise; the reported rate is the rate the pay was computed with.
C7_RateResolution ==
    /\ \A k \in 1..Len(results) :
         results[k].Rate =
            IF results[k].Name \in DOMAIN custom_rates
                 /\ custom_rates[results[k].Name] # 0
            THEN custom_rates[results[k].Name]
            ELSE default_rate
    /\ Extracted => LastRow.Rate = last.rate

-----------------------------------------------------------------------------
(* C8 *)

\* the scenario: no custom rate, default rate 15.0, shifts Monday 8, Tuesday
\* 8, Saturday 10, Sunday 6 (in any order), threshold 50, multipliers 1.5,
\* 1.75, 1.5
C8_Scenario ==
    /\ last.called
    /\ last.name \notin DOMAIN custom_rates
    /\ default_rate = 1500
    /\ Len(last.daily_data) = 4
    /\ {Shifts(last.daily_data)[i] : i \in 1..4} =
          {<<"Monday", 8>>, <<"Tuesday", 8>>, <<"Saturday", 10>>, <<"Sunday", 6>>}
    /\ PolicyInForce =
          [threshold |-> 50, Saturday |-> 150, Sunday |-> 175, Over |-> 150]

\* C8: in the scenario the total is 32 hours and the pay 622.50; the buckets
\* (computed by the streamlined variant only) are over-threshold 0, Saturday
\* 10, Sunday 6, regular 16.
C8_ScenarioPay ==
    C8_Scenario =>
        /\ last.total_hours = 32
        /\ last.pay = 6225000
        /\ last.pay_amount = 62250
        /\ last.rate = 1500
        /\ variant = "streamlined" =>
             /\ last.over_50 = 0
             /\ last.saturday_hours = 10
             /\ last.sunday_hours = 6
             /\ last.regular_hours = 16

\* the scenario has been costed by appy1's calculate_pay
C8_Witness == C8_Scenario /\ variant = "appy1" /\ results # <<>>

\* the scenario has been costed by the streamlined bucket computation
C8_WitnessStreamlined == C8_Scenario /\ variant = "streamlined" /\ results # <<>>

-----------------------------------------------------------------------------
(* C9 *)

\* a row whose date text matches DD.DD.DDDD and is no calendar date
InvalidDateRow(cells) == MatchesDatePattern(cells[1]) /\ ~StrptimeOk(cells[1])

ValidRows(rows) == SelectSeq(rows, LAMBDA cells : ~InvalidDateRow(cells))

\* C9: a row with an invalid calendar date yields no shift record and no date
\* of the range, and the other rows are processed as if it were not there.
C9_InvalidDateRowSkipped ==
    last.called =>
        LET rows == DocOf(last.file).rows
        IN  IF variant = "appy1"
            THEN /\ last.daily_data = DailyDataA(ValidRows(rows))
                 /\ last.date_range = DateRangeA(ValidRows(rows))
            ELSE /\ last.daily_data = DailyDataS(ValidRows(rows))
                 /\ last.date_range = DateRangeS(ValidRows(rows))

-----------------------------------------------------------------------------
(* C10 *)

\* the case of the claim: total hours above the threshold, with Saturday or
\* Sunday hours
C10_Case ==
    /\ last.called
    /\ TotalHours(last.daily_data) > PolicyInForce.threshold
    /\ \/ HoursOn(last.daily_data, "Saturday") > 0
       \/ HoursOn(last.daily_data, "Sunday") > 0

\* C10 as claimed: given the same rate, threshold and multipliers the
\* day-multiplier-first pay and the bucket pay differ on every shift list
\* whose total exceeds the threshold and that holds Saturday or Sunday hours.
C10_FormulasDiffer ==
    C10_Case =>
        DayFirstPay(last.daily_data, last.rate, PolicyInForce)
          # BucketPay(last.daily_data, last.rate, PolicyInForce).total_pay

\* C10 as amended: given the same rate, threshold and multipliers the
\* day-multiplier-first pay and the bucket pay are equal on every shift list,
\* unrounded and rounded: the pay each variant computed is the pay the other
\* variant's formula gives.
C10_FormulasAgree ==
    last.called =>
        /\ variant = "appy1" =>
             /\ last.pay =
                  BucketPay(last.daily_data, last.rate, PolicyInForce).total_pay
             /\ last.pay_amount =
                  Round2(BucketPay(last.daily_data, last.rate,
                                   PolicyInForce).total_pay)
        /\ variant = "streamlined" =>
             /\ last.pay = DayFirstPay(last.daily_data, last.rate, PolicyInForce)
             /\ last.pay_amount =
                  Round2(DayFirstPay(last.daily_data, last.rate, PolicyInForce))

\* a shift list above the threshold with weekend hours has been costed
C10_Witness == C10_Case /\ results # <<>>

-----------------------------------------------------------------------------
(* C11 *)

\* the row yielded a shift record
YieldsShift(cells) ==
    IF variant = "appy1" THEN ShiftA(cells) # <<>> ELSE ShiftS(cells) # <<>>

\* the row's date cell is read for the range and parses: appy1 reads the
\* first cell of every row, the streamlined variant that of rows of at least
\* five cells
DatedRow(cells) ==
    /\ StrptimeOk(cells[1])
    /\ variant = "streamlined" => Len(cells) >= 5

\* the date texts of the rows of the extracted document that satisfy P
DateTextsOf(P(_)) ==
    LET rows == DocOf(last.file).rows
    IN  {rows[k][1] : k \in {j \in 1..Len(rows) : P(rows[j])}}

\* the reported range is min..max of the dates written in the texts T, and
\* empty when T is empty
IsRangeOf(date_range, T) ==
    IF T = {} THEN date_range = <<>>
    ELSE /\ Len(date_range) = 3
         /\ date_range[1] \in T /\ date_range[3] \in T
         /\ \A t \in T : /\ Strptime(date_range[1]) <= Strptime(t)
                         /\ Strptime(t) <= Strptime(date_range[3])

AcceptedDatedRow(cells) == DatedRow(cells) /\ YieldsShift(cells)

\* C11 as claimed: the reported Date Range is min..max of the parsed dates of
\* the rows that yielded a shift record, and empty when no row yielded a
\* shift record with a parsed date.
C11_RangeOfAcceptedShifts ==
    Extracted => IsRangeOf(LastRow.DateRange, DateTextsOf(AcceptedDatedRow))

\* C11 as amended: the reported Date Range is min..max of the parsed dates
\* of all table rows whose date cell is read and parses, whether or not the
\* row yielded a shift record, and empty exactly when there is no such row.
C11_RangeOfDatedRows ==
    Extracted => IsRangeOf(LastRow.DateRange, DateTextsOf(DatedRow))

\* a row with a parsed date and no shift record (placeholder, empty or
\* unparsable hours) has put its date into a reported range
C11_Witness ==
    /\ Extracted
    /\ LastRow.DateRange # <<>>
    /\ \E t \in DateTextsOf(DatedRow) : t \notin DateTextsOf(AcceptedDatedRow)

-----------------------------------------------------------------------------
(* C12 *)

\* the documents the loop has taken and that load
Processed == {i \in visited : EndsWithDocx(batch[i].file) /\ batch[i].load_error = ""}

\* every processed document has its row, the row is the one its own content
\* and the configuration determine (whatever else the batch holds and in
\* whatever order), and the row is tied to its document: by File Name in
\* appy1, by position in the streamlined upload loop
RowsIndependent ==
    \A i \in Processed :
        IF variant = "appy1"
        THEN /\ RowCount(i) = 1
             /\ \E k \in 1..Len(results) :
                  /\ results[k].FileName = batch[i].file
                  /\ results[k] = ExtractA(batch[i])
        ELSE /\ i <= Len(results)
             /\ results[i] = ExtractS(batch[i])

\* the rate table and the default rate are the configured ones
ConfiguredRates ==
    /\ custom_rates = IF variant = "appy1" THEN BuildCustomRates(sidebar)
                                           ELSE StreamlinedRates
    /\ default_rate = IF variant = "appy1" THEN sidebar.default_rate
                                           ELSE StreamlinedDefaultRate

\* C12: documents are processed independently: at every point of a run the
\* rate table is the configured one, and every document processed so far has
\* its row, equal to what its own content and the configuration determine
\* (whatever other documents the batch holds and in whatever order they were
\* taken) and tied to the document it was extracted from; so no later
\* document changes the rate table, the overtime policy or a row already
\* produced.
C12_DocumentsIndependent == ConfiguredRates /\ RowsIndependent

=============================================================================
